---------------------------- MODULE Spec2Model ----------------------------
(***************************************************************************)
(* A model of the Android native file backend of JUCE                      *)
(* (src/native/android/juce_android_Files.cpp): File::copyInternal and the *)
(* directory iterator DirectoryIterator::NativeIterator::Pimpl.            *)
(***************************************************************************)
EXTENDS Integers, Sequences, FiniteSets

(***************************************************************************)
(* Bounds of the model.                                                    *)
(***************************************************************************)
\* longest file content, in bytes
MaxFileLen == 2
\* how many times another process may add or remove an entry of the directory
MaxMods == 2

VARIABLES
    \* ---- the file system seen by File::copyInternal
    fs,          \* path -> the file there (its bytes) or NoFile
    locked,      \* paths whose existing file cannot be deleted
    unreadable,  \* paths whose existing file cannot be opened for reading
    lastCopy,    \* what the last copyInternal call was given, did and returned
    \* ---- the directory and the iterators over it
    dirEntries,  \* the names the directory holds, "." and ".." included
    modsLeft,    \* how many external modifications may still happen
    statResults, \* the outcomes stat may have in this run (success: TRUE)
    hiddenAsked, \* the values of (isHidden != 0) the callers of next() use
    active,      \* the iterator instances the program uses
    status,      \* instance -> "unused" | "alive" | "destroyed"
    dirPath,     \* instance -> the directory path it was constructed with
    wildCard,    \* Pimpl::wildCard
    dir,         \* Pimpl::dir, NULL when opendir failed
    seen,        \* DIR stream -> the names it has already returned
    found,       \* the names next() has returned true for
    lastEntry,   \* the result and the out-parameters of the last next() call
    everFalse,   \* next() has returned false on this instance
    trueAfterFalse, \* next() has returned true after having returned false
    statFailed,  \* stat has failed for an entry this instance yielded
    modified,    \* the directory was modified after the instance was constructed
    closeCalls,  \* how many times closedir was called on the instance's handle
    badReaddir,  \* readdir was called on a null handle
    tracing,     \* whether the run records the order of what readdir returns
    rawOrder,    \* instance -> the names readdir has returned to it, in order
    yielded,     \* instance -> the names next() has returned true for, in order
    parentDir,   \* Pimpl::parentDir
    statPath,    \* instance -> the path its last updateStatInfoForFile call was given
    \* ---- symbolic links
    links,       \* path -> what the path names: a file, a directory, nothing or a link
    lastLink,    \* what the last getLinkedTarget call was given, did and returned
    \* ---- special locations
    android,     \* the process-wide android object: appDataDir, appFile
    lastResolve, \* the type and the result of the last getSpecialLocation call
    remembered,  \* the type and the result of one earlier getSpecialLocation call
    \* ---- trash
    lastTrash,   \* what the last moveToTrash call was given, did and returned
    \* ---- the buttons of one parent component
    isOn,              \* Button::isOn
    radioGroupId,      \* Button::radioGroupId
    clickTogglesState, \* Button::clickTogglesState
    lastClick          \* the button last clicked, its state before and after the click

fileVars == <<fs, locked, unreadable, lastCopy>>
iterVars == <<dirEntries, modsLeft, statResults, hiddenAsked, active, status,
              dirPath, wildCard, dir, seen, found, lastEntry, everFalse, trueAfterFalse, statFailed, modified,
              closeCalls, badReaddir, tracing, rawOrder, yielded, parentDir,
              statPath>>
linkVars == <<links, lastLink>>
locVars == <<android, lastResolve, remembered>>
trashVars == <<lastTrash>>
buttonVars == <<isOn, radioGroupId, clickTogglesState, lastClick>>
restVars == <<linkVars, locVars, trashVars, buttonVars>>
vars == <<links, lastLink, android, lastResolve, remembered, lastTrash,
          isOn, radioGroupId, clickTogglesState, lastClick,
          fs, locked, unreadable, lastCopy,
          dirEntries, modsLeft, statResults, hiddenAsked, active, status, dirPath,
          wildCard, dir, seen,
          found, lastEntry, everFalse, trueAfterFalse, statFailed, modified,
          closeCalls, badReaddir, tracing, rawOrder, yielded, parentDir, statPath>>

(***************************************************************************)
(* Files.  A file's content is a sequence of bytes; NoFile is what a path  *)
(* that names nothing maps to.                                             *)
(***************************************************************************)
NoFile == [here |-> FALSE, data |-> <<>>]
Paths == {"p", "q"}
Bytes == {"x", "y"}
Contents == UNION {[1..n -> Bytes] : n \in 0..MaxFileLen}
\* the file holding the bytes c
FileOf(c) == [here |-> TRUE, data |-> c]
Files == {FileOf(c) : c \in Contents}

\* File::exists
exists(f, path) == f[path] # NoFile

\* File::getSize: the size stat reports, 0 when the path cannot be stat'ed
getSize(f, path) == IF exists(f, path) THEN Len(f[path].data) ELSE 0

\* The result of File::deleteFile: true when nothing is there or it was removed
deleteFileOk(f, lk, path) == ~exists(f, path) \/ path \notin lk

\* The file system after File::deleteFile
deleteFile(f, lk, path) ==
    IF exists(f, path) /\ path \notin lk THEN [f EXCEPT ![path] = NoFile] ELSE f

\* FileInputStream's constructor: an unopened stream reads no byte. An opened
\* one keeps reading the file it opened, also after its path was unlinked.
FileInputStream(f, unr, path) ==
    IF exists(f, path) /\ path \notin unr
    THEN [opened |-> TRUE, data |-> f[path].data]
    ELSE [opened |-> FALSE, data |-> <<>>]

\* OutputStream::writeFromInputStream (in, -1): the bytes of `in` reach the
\* destination in order; wr of them when the device stops accepting them.
writeFromInputStream(f, dest, in, wr) ==
    [f EXCEPT ![dest] = FileOf(SubSeq(in.data, 1, wr))]

\* A variant without the dest.deleteFile() that follows a size mismatch
copyInternalNoCleanup(f, lk, unr, source, dest, destOpens, wr, sizeFirst) ==
    LET in       == FileInputStream(f, unr, source)
        deleted  == deleteFileOk(f, lk, dest)
        f1       == deleteFile(f, lk, dest)
        f2       == [f1 EXCEPT ![dest] = FileOf(<<>>)]
        n        == IF wr <= Len(in.data) THEN wr ELSE Len(in.data)
        f3       == writeFromInputStream(f2, dest, in, n)
        size     == IF sizeFirst THEN getSize(f2, source) ELSE getSize(f3, source)
    IN  IF ~deleted
        THEN [ret |-> FALSE, fs |-> f, opened |-> in.opened, written |-> 0,
              failedToOpen |-> FALSE, steps |-> <<"openSource", "deleteDest">>]
        ELSE IF ~destOpens
        THEN [ret |-> FALSE, fs |-> f1, opened |-> in.opened, written |-> 0,
              failedToOpen |-> TRUE,
              steps |-> <<"openSource", "deleteDest", "openDest">>]
        ELSE IF n = size
        THEN [ret |-> TRUE, fs |-> f3, opened |-> in.opened, written |-> n,
              failedToOpen |-> FALSE,
              steps |-> <<"openSource", "deleteDest", "openDest", "stream", "verify">>]
        ELSE [ret |-> FALSE, fs |-> f3, opened |-> in.opened, written |-> n,
              failedToOpen |-> FALSE,
              steps |-> <<"openSource", "deleteDest", "openDest", "stream", "verify">>]

(***************************************************************************)
(* File::copyInternal (const File& dest), as a function of the file system *)
(* and of what the environment decides during the call:                    *)
(*   destOpens  whether the destination can be opened for writing,         *)
(*   wr         how many bytes the stream gets written,                    *)
(*   sizeFirst  whether getSize() is evaluated before writeFromInputStream *)
(*              (the operands of == are unsequenced).                      *)
(* The result holds the returned value, the file system left behind and    *)
(* the steps taken.                                                        *)
(***************************************************************************)
copyInternal(f, lk, unr, source, dest, destOpens, wr, sizeFirst) ==
    LET in       == FileInputStream(f, unr, source)
        deleted  == deleteFileOk(f, lk, dest)
        f1       == deleteFile(f, lk, dest)
        f2       == [f1 EXCEPT ![dest] = FileOf(<<>>)]
        n        == IF wr <= Len(in.data) THEN wr ELSE Len(in.data)
        f3       == writeFromInputStream(f2, dest, in, n)
        size     == IF sizeFirst THEN getSize(f2, source) ELSE getSize(f3, source)
        f4       == deleteFile(f3, lk \ {dest}, dest)
    IN  IF ~deleted
        THEN [ret |-> FALSE, fs |-> f, opened |-> in.opened, written |-> 0,
              failedToOpen |-> FALSE, steps |-> <<"openSource", "deleteDest">>]
        ELSE IF ~destOpens
        THEN [ret |-> FALSE, fs |-> f1, opened |-> in.opened, written |-> 0,
              failedToOpen |-> TRUE,
              steps |-> <<"openSource", "deleteDest", "openDest">>]
        ELSE IF n = size
        THEN [ret |-> TRUE, fs |-> f3, opened |-> in.opened, written |-> n,
              failedToOpen |-> FALSE,
              steps |-> <<"openSource", "deleteDest", "openDest", "stream", "verify">>]
        ELSE [ret |-> FALSE, fs |-> f4, opened |-> in.opened, written |-> n,
              failedToOpen |-> FALSE,
              steps |-> <<"openSource", "deleteDest", "openDest", "stream", "verify",
                          "deleteDest">>]

NoCopy == [called |-> FALSE]

\* One call source.copyInternal (dest)
CopyInternal(source, dest) ==
    \E destOpens \in BOOLEAN, wr \in 0..MaxFileLen, sizeFirst \in BOOLEAN :
        LET r == copyInternal(fs, locked, unreadable, source, dest,
                              destOpens, wr, sizeFirst)
        IN  /\ wr <= getSize(fs, source)
            /\ fs' = r.fs
            /\ locked' = locked
            /\ unreadable' = {x \in unreadable : r.fs[x] # NoFile /\ (x # dest \/ r.fs = fs)}
            /\ lastCopy' = [called |-> TRUE, source |-> source, dest |-> dest,
                            ret |-> r.ret, before |-> fs, opened |-> r.opened,
                            written |-> r.written, steps |-> r.steps,
                            failedToOpen |-> r.failedToOpen]
            /\ UNCHANGED <<iterVars, restVars>>

(***************************************************************************)
(* Symbolic links.  A path is the sequence of its characters; the model's  *)
(* file names are one character long.                                      *)
(***************************************************************************)
separator == "/"

\* the paths getLinkedTarget is called on: three entries of the directory /d
LinkPaths == {<<"/", "d", "/", "a">>, <<"/", "d", "/", "b">>, <<"/", "d", "/", "c">>}

\* what a link may hold: the name of an entry beside it, or an absolute path
Targets == {<<"a">>, <<"b">>, <<"c">>, <<"/", "e">>}

NotLinks == {[kind |-> k, target |-> <<>>] : k \in {"file", "directory", "missing"}}
LinkTo(t) == [kind |-> "link", target |-> t]

\* the size of juce_readlink's buffer
size == 8192

\* A target one byte longer than juce_readlink's buffer, one that fills it
\* and the empty one
LongTarget == [k \in 1..(size + 1) |-> "a"]
FullTarget == [k \in 1..size |-> "a"]
EdgeTargets == {<<"a">>, <<>>, FullTarget, LongTarget}

\* A size_t is 32 bits wide; a value is held as its two 16-bit halves
HalfWord == 65536

\* the conversion of an int to size_t
toSizeT(n) == [hi |-> (n \div HalfWord) % HalfWord, lo |-> n % HalfWord]

\* numBytes > 0 and numBytes <= size on a size_t, for a size below 65536
sizeTPositive(x) == x.hi > 0 \/ x.lo > 0
sizeTAtMost(x, n) == x.hi = 0 /\ x.lo <= n

\* readlink (path, buffer, bufsize) of the C library: the bytes of the link's
\* target, at most bufsize of them, and their number; -1 when the path is
\* not a symbolic link
readlink(ln, path, bufsize) ==
    IF ln[path].kind = "link"
    THEN LET n == IF Len(ln[path].target) <= bufsize
                  THEN Len(ln[path].target) ELSE bufsize
         IN  [ret |-> n, buffer |-> SubSeq(ln[path].target, 1, n)]
    ELSE [ret |-> -1, buffer |-> <<>>]

\* the index of the last separator of a path, 0 when it has none
RECURSIVE lastSeparator(_, _)
lastSeparator(path, i) ==
    IF i = 0 THEN 0
    ELSE IF path[i] = separator THEN i
    ELSE lastSeparator(path, i - 1)

\* File::getParentDirectory: the path up to its last separator, "/" for an
\* entry of the root
getParentDirectory(path) ==
    LET k == lastSeparator(path, Len(path))
    IN  IF k <= 1 THEN <<separator>> ELSE SubSeq(path, 1, k - 1)

\* File::getChildFile: an absolute name as it is, a relative one below the
\* directory
getChildFile(directory, name) ==
    IF name # <<>> /\ Head(name) = separator THEN name
    ELSE IF directory[Len(directory)] = separator THEN directory \o name
    ELSE directory \o <<separator>> \o name

\* File::getSiblingFile
getSiblingFile(file, name) == getChildFile(getParentDirectory(file), name)

\* juce_readlink (file, defaultFile), given what readlink returned: numBytes
\* is the returned int stored in a size_t
juce_readlink(file, defaultFile, rl) ==
    LET numBytes == toSizeT(rl.ret)
    IN  IF sizeTPositive(numBytes) /\ sizeTAtMost(numBytes, size)
        THEN getSiblingFile(file, SubSeq(rl.buffer, 1, numBytes.lo))
        ELSE defaultFile

\* A variant that goes on to resolve a target that is itself a link
getLinkedTargetTransitive(ln, path) ==
    LET first == juce_readlink(path, path, readlink(ln, path, size))
    IN  IF first \in DOMAIN ln /\ ln[first].kind = "link"
        THEN [result |-> juce_readlink(first, first, readlink(ln, first, size)),
              reads |-> 2]
        ELSE [result |-> first, reads |-> 1]

\* File::getLinkedTarget: the file returned and the native link reads made
getLinkedTarget(ln, path) ==
    [result |-> juce_readlink(path, path, readlink(ln, path, size)), reads |-> 1]

NoLinkCall == [called |-> FALSE]

\* One call File (path).getLinkedTarget()
GetLinkedTarget(path) ==
    LET r == getLinkedTarget(links, path)
    IN  /\ lastLink' = [called |-> TRUE, path |-> path, result |-> r.result,
                        reads |-> r.reads, ret |-> readlink(links, path, size).ret]
        /\ UNCHANGED <<links, fileVars, iterVars, locVars, trashVars, buttonVars>>

(***************************************************************************)
(* Names.  A name or a pattern is an identifier of the model; toUTF8 gives *)
(* its characters, on which fnmatch and startsWithChar work.               *)
(***************************************************************************)
Names == {".", "..", "a.txt", "B.TXT", ".hidden"}
SpecialNames == {".", ".."}
RealNames == Names \ SpecialNames
WildCards == {"*", "*.txt", ".*", "?"}

\* String::toUTF8 / CharPointer_UTF8: the characters of a name or pattern
toUTF8(s) ==
    CASE s = "."       -> <<".">>
      [] s = ".."      -> <<".", ".">>
      [] s = "a.txt"   -> <<"a", ".", "t", "x", "t">>
      [] s = "B.TXT"   -> <<"B", ".", "T", "X", "T">>
      [] s = ".hidden" -> <<".", "h", "i", "d", "d", "e", "n">>
      [] s = "*"       -> <<"*">>
      [] s = "*.txt"   -> <<"*", ".", "t", "x", "t">>
      [] s = ".*"      -> <<".", "*">>
      [] s = "?"       -> <<"?">>
      [] OTHER         -> <<>>

\* tolower, on the characters the names use
tolower(c) ==
    CASE c = "B" -> "b"
      [] c = "T" -> "t"
      [] c = "X" -> "x"
      [] OTHER   -> c

\* fnmatch (pattern, string, flags) of the C library with flags FNM_CASEFOLD
\* (casefold) or none: 0 on a match, non-zero (FNM_NOMATCH) otherwise. Neither
\* FNM_PERIOD nor FNM_PATHNAME is given, so "*" and "?" match a leading period.
RECURSIVE fnmatch(_, _, _)
fnmatch(pattern, string, casefold) ==
    IF pattern = <<>>
    THEN (IF string = <<>> THEN 0 ELSE 1)
    ELSE IF Head(pattern) = "*"
    THEN IF fnmatch(Tail(pattern), string, casefold) = 0 THEN 0
         ELSE IF string = <<>> THEN 1
         ELSE fnmatch(pattern, Tail(string), casefold)
    ELSE IF string = <<>> THEN 1
    ELSE IF \/ Head(pattern) = "?"
            \/ Head(pattern) = Head(string)
            \/ casefold /\ tolower(Head(pattern)) = tolower(Head(string))
    THEN fnmatch(Tail(pattern), Tail(string), casefold)
    ELSE 1

\* String::startsWithChar
startsWithChar(chars, c) == chars # <<>> /\ Head(chars) = c

(***************************************************************************)
(* The directory.  DirPaths are the paths an iterator may be constructed   *)
(* with: one names the directory, the others cannot be opened.             *)
(***************************************************************************)
DirPaths == {"/tmp/x", "/missing", "/denied", "/file"}

\* Other ways to name a directory that can be opened: the root, and a path
\* written with a trailing separator
StatDirs == {"/", "/tmp/x", "/tmp/x/"}

\* the characters of a path
pathUTF8(path) ==
    CASE path = "/"        -> <<"/">>
      [] path = "/tmp/x"   -> <<"/", "t", "m", "p", "/", "x">>
      [] path = "/tmp/x/"  -> <<"/", "t", "m", "p", "/", "x", "/">>
      [] path = "/missing" -> <<"/", "m", "i", "s", "s", "i", "n", "g">>
      [] path = "/denied"  -> <<"/", "d", "e", "n", "i", "e", "d">>
      [] path = "/file"    -> <<"/", "f", "i", "l", "e">>

\* File::getFullPathName of the File made from a path: File's constructor
\* drops the trailing separators of anything but the root
RECURSIVE getFullPathName(_)
getFullPathName(chars) ==
    IF Len(chars) > 1 /\ chars[Len(chars)] = separator
    THEN getFullPathName(SubSeq(chars, 1, Len(chars) - 1))
    ELSE chars

\* File::addTrailingSeparator
addTrailingSeparator(chars) ==
    IF chars # <<>> /\ chars[Len(chars)] = separator THEN chars
    ELSE chars \o <<separator>>

\* A variant that joins directory and name as directory + "/" + name
statPathWithSeparator(parent, name) == parent \o <<separator>> \o toUTF8(name)

\* parentDir + filenameFound, the path next() has the entry stat'ed by
statPathOf(parent, name) == parent \o toUTF8(name)

\* What opendir finds at a path
OpenError(path) ==
    CASE path = "/tmp/x"   -> "ok"
      [] path = "/"        -> "ok"
      [] path = "/tmp/x/"  -> "ok"
      [] path = "/missing" -> "NotFound"
      [] path = "/denied"  -> "PermissionDenied"
      [] path = "/file"    -> "NotADirectory"

NULL == <<"NULL">>
\* A variant in which every opendir call hands out the same DIR stream
HandleShared(i) == <<"DIR", "it1">>

\* the DIR stream opendir allocates for an instance
Handle(i) == <<"DIR", i>>

\* opendir: a fresh stream, or a null pointer whatever the error is
opendir(i, path) == IF OpenError(path) = "ok" THEN Handle(i) ELSE NULL

Iters == {"it1", "it2"}

\* the DIR streams the instances may hold
Streams == {Handle(i) : i \in Iters}

\* Pimpl::Pimpl (directory, wildCard_)
Pimpl(i, directory, wildCard_) ==
    /\ i \in active
    /\ status[i] = "unused"
    /\ status' = [status EXCEPT ![i] = "alive"]
    /\ dirPath' = [dirPath EXCEPT ![i] = directory]
    /\ parentDir' = [parentDir EXCEPT ![i] =
                        addTrailingSeparator(getFullPathName(pathUTF8(directory)))]
    /\ wildCard' = [wildCard EXCEPT ![i] = wildCard_]
    /\ dir' = [dir EXCEPT ![i] = opendir(i, directory)]
    /\ seen' = IF opendir(i, directory) # NULL
               THEN [seen EXCEPT ![opendir(i, directory)] = {}]
               ELSE seen
    /\ UNCHANGED <<dirEntries, modsLeft, statResults, hiddenAsked, active, found,
                   lastEntry, everFalse, trueAfterFalse, statFailed, modified,
                   closeCalls, badReaddir, tracing, rawOrder, yielded, statPath>>
    /\ UNCHANGED <<fileVars, restVars>>

\* A variant without the null test: closedir and readdir on whatever dir holds
dirIsOpenAlways(d) == TRUE

\* dir != 0, the test that guards closedir and readdir
dirIsOpen(d) == d # NULL

\* Pimpl::~Pimpl: closedir, on a handle that was opened only
PimplDestructor(i) ==
    /\ i \in active
    /\ status[i] = "alive"
    /\ status' = [status EXCEPT ![i] = "destroyed"]
    /\ closeCalls' = [closeCalls EXCEPT ![i] = IF dirIsOpen(dir[i]) THEN @ + 1 ELSE @]
    /\ seen' = IF dir[i] # NULL THEN [seen EXCEPT ![dir[i]] = {}] ELSE seen
    /\ UNCHANGED <<dirEntries, modsLeft, statResults, hiddenAsked, active, dirPath,
                   wildCard, dir, found,
                   lastEntry, everFalse, trueAfterFalse, statFailed, modified,
                   badReaddir, tracing, rawOrder, yielded, parentDir, statPath>>
    /\ UNCHANGED <<fileVars, restVars>>

\* A variant that calls fnmatch without FNM_CASEFOLD
MatchesCaseSensitive(wild, name) == fnmatch(toUTF8(wild), toUTF8(name), FALSE) = 0

\* fnmatch (wildcardUTF8, de->d_name, FNM_CASEFOLD) == 0
Matches(wild, name) == fnmatch(toUTF8(wild), toUTF8(name), TRUE) = 0

\* updateStatInfoForFile: the metadata of the entry, absent when stat fails
updateStatInfoForFile(statOk) == IF statOk THEN "Some" ELSE "None"

\* A variant that returns false for an entry whose stat failed
matchedEntryStopsOnStatFailure(name, statOk, wantHidden) ==
    [called |-> TRUE, ret |-> statOk, filenameFound |-> name,
     stat |-> IF statOk THEN "ok" ELSE "failed",
     meta |-> updateStatInfoForFile(statOk),
     isHidden |-> IF wantHidden
                  THEN (IF startsWithChar(toUTF8(name), ".") THEN "true" ELSE "false")
                  ELSE "unset"]

\* What next() hands back for a matched entry: true, the name, the metadata
\* and, when the caller asked for it, the hidden flag. `stat` records what
\* the stat of the call did.
matchedEntry(name, statOk, wantHidden) ==
    [called |-> TRUE, ret |-> TRUE, filenameFound |-> name,
     stat |-> IF statOk THEN "ok" ELSE "failed",
     meta |-> updateStatInfoForFile(statOk),
     isHidden |-> IF wantHidden
                  THEN (IF startsWithChar(toUTF8(name), ".") THEN "true" ELSE "false")
                  ELSE "unset"]

\* before the first next() call: nothing returned, the out-parameters unset
NotCalled ==
    [called |-> FALSE, ret |-> FALSE, filenameFound |-> "", stat |-> "none",
     meta |-> "unset", isHidden |-> "unset"]

\* next() returning false: the out-parameters are left as they were
NoEntry(prev) == [prev EXCEPT !.called = TRUE, !.ret = FALSE, !.stat = "none"]

\* The bookkeeping of one next() call on instance i that read the names
\* `consumed` from its stream and hands back r
Returned(i, consumed, r) ==
    /\ seen' = IF dir[i] # NULL
               THEN [seen EXCEPT ![dir[i]] = @ \cup consumed]
               ELSE seen
    /\ lastEntry' = [lastEntry EXCEPT ![i] = r]
    /\ found' = [found EXCEPT ![i] = IF r.ret THEN @ \cup {r.filenameFound} ELSE @]
    /\ everFalse' = [everFalse EXCEPT ![i] = @ \/ ~r.ret]
    /\ trueAfterFalse' = [trueAfterFalse EXCEPT ![i] = @ \/ (everFalse[i] /\ r.ret)]
    /\ statFailed' = [statFailed EXCEPT ![i] = @ \/ r.stat = "failed"]
    /\ statPath' = IF r.ret
                   THEN [statPath EXCEPT ![i] = statPathOf(parentDir[i], r.filenameFound)]
                   ELSE statPath

\* the orders in which readdir may return the names of a set
Orders(names) ==
    {o \in [1..Cardinality(names) -> names] :
        \A a \in DOMAIN o : \A b \in DOMAIN o : a # b => o[a] # o[b]}

\* The record a run that traces keeps of one next() call on instance i that
\* was returned the names `read` by readdir, in this order, and hands back r
Traced(i, read, r) ==
    IF tracing
    THEN /\ rawOrder' = [rawOrder EXCEPT ![i] = @ \o read]
         /\ yielded' = [yielded EXCEPT ![i] = IF r.ret THEN Append(@, r.filenameFound)
                                              ELSE @]
    ELSE UNCHANGED <<rawOrder, yielded>>

\* A variant of the loop that reads on past entries that match
readBeforeAnyMatch(remaining, matching, m) == SUBSET (remaining \ {m})

\* The sets of names the loop of next() may have read from the stream before
\* the name m it returns true for: the loop returns at the first name that
\* matches, so none of them matches
readBefore(remaining, matching, m) == SUBSET (remaining \ matching)

\* Pimpl::next.  readdir returns the entries of the directory the stream has
\* not returned yet, in an order of its own; the loop reads on until a name
\* matches or the stream ends.
next(i) ==
    /\ i \in active
    /\ status[i] = "alive"
    /\ badReaddir' = [badReaddir EXCEPT ![i] = @ \/ (dirIsOpen(dir[i]) /\ dir[i] = NULL)]
    /\ IF dirIsOpen(dir[i])
       THEN LET remaining == IF dir[i] = NULL THEN {} ELSE dirEntries \ seen[dir[i]]
                matching  == {n \in remaining : Matches(wildCard[i], n)}
            IN  IF matching # {}
                THEN \E m \in matching, statOk \in statResults,
                        wantHidden \in hiddenAsked :
                        \E skipped \in readBefore(remaining, matching, m) :
                        \E order \in (IF tracing THEN Orders(skipped) ELSE {<<>>}) :
                           /\ Returned(i, skipped \cup {m},
                                       matchedEntry(m, statOk, wantHidden))
                           /\ Traced(i, order \o <<m>>,
                                     matchedEntry(m, statOk, wantHidden))
                ELSE \E order \in (IF tracing THEN Orders(remaining) ELSE {<<>>}) :
                        /\ Returned(i, remaining, NoEntry(lastEntry[i]))
                        /\ Traced(i, order, NoEntry(lastEntry[i]))
       ELSE /\ Returned(i, {}, NoEntry(lastEntry[i]))
            /\ Traced(i, <<>>, NoEntry(lastEntry[i]))
    /\ UNCHANGED <<dirEntries, modsLeft, statResults, hiddenAsked, active, status,
                   dirPath, wildCard, dir, modified, closeCalls, tracing, parentDir>>
    /\ UNCHANGED <<fileVars, restVars>>

\* Another process creates an entry. Whether a stream that is open returns it
\* later is unspecified: it does for the instances outside `missedBy`.
ExternalAdd(n) ==
    /\ modsLeft > 0
    /\ n \in RealNames \ dirEntries
    /\ \E missedBy \in SUBSET {dir[i] : i \in {j \in Iters : status[j] = "alive"
                                                             /\ dir[j] # NULL}} :
          seen' = [h \in Streams |-> IF h \in missedBy THEN seen[h] \cup {n} ELSE seen[h]]
    /\ dirEntries' = dirEntries \cup {n}
    /\ modsLeft' = modsLeft - 1
    /\ modified' = [i \in Iters |-> modified[i] \/ status[i] # "unused"]
    /\ UNCHANGED <<statResults, hiddenAsked, active, status, dirPath, wildCard, dir,
                   found, lastEntry,
                   everFalse, trueAfterFalse, statFailed, closeCalls, badReaddir,
                   tracing, rawOrder, yielded, parentDir, statPath>>
    /\ UNCHANGED <<fileVars, restVars>>

\* Another process removes an entry
ExternalRemove(n) ==
    /\ modsLeft > 0
    /\ n \in RealNames \cap dirEntries
    /\ seen' = [h \in Streams |-> seen[h] \ {n}]
    /\ dirEntries' = dirEntries \ {n}
    /\ modsLeft' = modsLeft - 1
    /\ modified' = [i \in Iters |-> modified[i] \/ status[i] # "unused"]
    /\ UNCHANGED <<statResults, hiddenAsked, active, status, dirPath, wildCard, dir,
                   found, lastEntry,
                   everFalse, trueAfterFalse, statFailed, closeCalls, badReaddir,
                   tracing, rawOrder, yielded, parentDir, statPath>>
    /\ UNCHANGED <<fileVars, restVars>>

(***************************************************************************)
(* Special locations.  A path is the sequence of its components, the empty *)
(* sequence being File::nonexistent; "~" is the component File's           *)
(* constructor expands.                                                    *)
(***************************************************************************)
MappedTypes == {"userHomeDirectory", "userDocumentsDirectory", "userMusicDirectory",
                "userMoviesDirectory", "userApplicationDataDirectory",
                "userDesktopDirectory", "commonApplicationDataDirectory",
                "globalApplicationsDirectory", "tempDirectory",
                "invokedExecutableFile", "currentExecutableFile",
                "currentApplicationFile", "hostApplicationPath"}
\* a value of the enum's underlying type that names none of its kinds
UnmappedType == "unmapped"
LocationTypes == MappedTypes \cup {UnmappedType}

\* the directory the application was given as its data directory
AppDataDirs == {<<"data", "app">>}
\* the file the application was loaded from
AppFiles == {<<"data", "app.apk">>}
Androids == [appDataDir : AppDataDirs, appFile : AppFiles]

nonexistent == <<>>

\* File's constructor: a leading "~" stands for the user's home directory,
\* which on this platform is the application's data directory
File(a, path) ==
    IF path # <<>> /\ Head(path) = "~" THEN a.appDataDir \o Tail(path) ELSE path

\* juce_getExecutableFile
juce_getExecutableFile(a) == File(a, a.appFile)

\* A variant of the switch whose temp case returns the desktop
locationOfTempIsDesktop(type, a) ==
    CASE type \in {"userHomeDirectory", "userDocumentsDirectory",
                   "userMusicDirectory", "userMoviesDirectory",
                   "userApplicationDataDirectory"} -> File(a, a.appDataDir)
      [] type = "userDesktopDirectory"            -> File(a, <<"~", "Desktop">>)
      [] type = "commonApplicationDataDirectory"  -> File(a, a.appDataDir)
      [] type = "globalApplicationsDirectory"     -> File(a, <<"usr">>)
      [] type = "tempDirectory"                   -> File(a, <<"~", "Desktop">>)
      [] type \in {"invokedExecutableFile", "currentExecutableFile",
                   "currentApplicationFile", "hostApplicationPath"}
                                                  -> juce_getExecutableFile(a)
      [] OTHER                                    -> nonexistent

\* the switch of File::getSpecialLocation: the file each type maps to
locationOf(type, a) ==
    CASE type \in {"userHomeDirectory", "userDocumentsDirectory",
                   "userMusicDirectory", "userMoviesDirectory",
                   "userApplicationDataDirectory"} -> File(a, a.appDataDir)
      [] type = "userDesktopDirectory"            -> File(a, <<"~", "Desktop">>)
      [] type = "commonApplicationDataDirectory"  -> File(a, a.appDataDir)
      [] type = "globalApplicationsDirectory"     -> File(a, <<"usr">>)
      [] type = "tempDirectory"                   -> File(a, <<"~", ".temp">>)
      [] type \in {"invokedExecutableFile", "currentExecutableFile",
                   "currentApplicationFile", "hostApplicationPath"}
                                                  -> juce_getExecutableFile(a)
      [] OTHER                                    -> nonexistent

\* A variant whose desktop lookup makes the desktop the data directory
getSpecialLocationStateful(type, a) ==
    [result  |-> locationOf(type, a),
     android |-> IF type = "userDesktopDirectory"
                 THEN [a EXCEPT !.appDataDir = locationOf(type, a)]
                 ELSE a]

\* File::getSpecialLocation (type): the file returned and the android object
\* the call leaves behind
getSpecialLocation(type, a) == [result |-> locationOf(type, a), android |-> a]

NoResolve == [called |-> FALSE]

\* the other operations of the subsystem the program has called so far
opsDone ==
    (IF lastCopy.called THEN {"copy"} ELSE {})
    \cup (IF lastTrash.called THEN {"trash"} ELSE {})
    \cup (IF \E i \in Iters : lastEntry[i].called THEN {"iteration"} ELSE {})

\* One call File::getSpecialLocation (type); the caller may keep the result
GetSpecialLocation(type) ==
    \E keep \in BOOLEAN :
        LET r == getSpecialLocation(type, android)
        IN  /\ android' = r.android
            /\ lastResolve' = [called |-> TRUE, type |-> type, result |-> r.result,
                               late |-> opsDone = {"copy", "trash", "iteration"}]
            /\ remembered' = IF keep THEN [called |-> TRUE, type |-> type,
                                           result |-> r.result,
                                           early |-> opsDone = {}]
                             ELSE remembered
            /\ UNCHANGED <<fileVars, iterVars, linkVars, trashVars, buttonVars>>

(***************************************************************************)
(* File::moveToTrash                                                       *)
(***************************************************************************)
\* A variant that reports a path that names nothing as a failure
moveToTrashNotFound(f, path) == [ret |-> FALSE, fs |-> f]

\* A variant that removes the file and reports success
moveToTrashRemoves(f, path) == [ret |-> TRUE, fs |-> [f EXCEPT ![path] = NoFile]]

\* File::moveToTrash: the returned value and the file system left behind
moveToTrash(f, path) ==
    IF ~exists(f, path) THEN [ret |-> TRUE, fs |-> f]
    ELSE [ret |-> FALSE, fs |-> f]

NoTrash == [called |-> FALSE]

\* One call File (path).moveToTrash()
MoveToTrash(path) ==
    LET r == moveToTrash(fs, path)
    IN  /\ fs' = r.fs
        /\ lastTrash' = [called |-> TRUE, path |-> path, ret |-> r.ret,
                         existed |-> exists(fs, path), changed |-> r.fs # fs]
        /\ UNCHANGED <<locked, unreadable, lastCopy, iterVars, linkVars, locVars,
                       buttonVars>>

(***************************************************************************)
(* Button: the toggle state and the radio groups of the buttons placed in  *)
(* one parent component, as the class documents them.                      *)
(***************************************************************************)
Buttons == {"b1", "b2", "b3"}
\* the group IDs in use; 0 is no group
GroupIds == {0, 1, 2}

\* A variant that leaves the other buttons of the group as they are
turnOffNoButton(on, group, b) == on

\* Button::turnOffOtherButtonsInGroup: the toggle states after button b has
\* turned off its siblings with the same non-zero group ID
turnOffOtherButtonsInGroup(on, group, b) ==
    [c \in Buttons |-> IF c # b /\ group[b] # 0 /\ group[c] = group[b]
                       THEN FALSE ELSE on[c]]

\* Button::setToggleState: the toggle states after b is set on or off
setToggleState(on, group, b, shouldBeOn) ==
    IF shouldBeOn # on[b]
    THEN LET on1 == [on EXCEPT ![b] = shouldBeOn]
         IN  IF shouldBeOn THEN turnOffOtherButtonsInGroup(on1, group, b) ELSE on1
    ELSE on

NoClick == [called |-> FALSE]

\* One call b.setToggleState (shouldBeOn, ...). For a member of a group the
\* documentation says the call always tries to turn the button on; the
\* call may follow this (asDocumented) or the argument.
SetToggleState(b, shouldBeOn) ==
    \E asDocumented \in BOOLEAN :
        /\ isOn' = setToggleState(isOn, radioGroupId, b,
                                  shouldBeOn \/ (asDocumented /\ radioGroupId[b] # 0))
        /\ UNCHANGED <<radioGroupId, clickTogglesState, lastClick>>
        /\ UNCHANGED <<fileVars, iterVars, linkVars, locVars, trashVars>>

\* One call b.setClickingTogglesState (shouldToggle)
SetClickingTogglesState(b, shouldToggle) ==
    /\ clickTogglesState' = [clickTogglesState EXCEPT ![b] = shouldToggle]
    /\ UNCHANGED <<isOn, radioGroupId, lastClick>>
    /\ UNCHANGED <<fileVars, iterVars, linkVars, locVars, trashVars>>

\* One call b.setRadioGroupId (newGroupId): a button that is on turns off
\* the others of the group it joins
SetRadioGroupId(b, newGroupId) ==
    /\ radioGroupId' = [radioGroupId EXCEPT ![b] = newGroupId]
    /\ isOn' = IF radioGroupId[b] # newGroupId /\ isOn[b]
               THEN turnOffOtherButtonsInGroup(isOn, radioGroupId', b)
               ELSE isOn
    /\ UNCHANGED <<clickTogglesState, lastClick>>
    /\ UNCHANGED <<fileVars, iterVars, linkVars, locVars, trashVars>>

\* A click on b: a toggle-button flips, except that a member of a group is
\* turned on whatever it was
Click(b) ==
    /\ isOn' = IF clickTogglesState[b]
               THEN setToggleState(isOn, radioGroupId, b,
                                   radioGroupId[b] # 0 \/ ~isOn[b])
               ELSE isOn
    /\ lastClick' = [called |-> TRUE, button |-> b, wasOn |-> isOn[b],
                     group |-> radioGroupId[b], toggles |-> clickTogglesState[b],
                     nowOn |-> isOn'[b]]
    /\ UNCHANGED <<radioGroupId, clickTogglesState>>
    /\ UNCHANGED <<fileVars, iterVars, linkVars, locVars, trashVars>>

(***************************************************************************)
(* The iterators, idle in the specification of the file operations.        *)
(***************************************************************************)
IterIdle ==
    /\ dirEntries = {".", ".."}
    /\ modsLeft = 0
    /\ statResults = {TRUE}
    /\ hiddenAsked = {TRUE}
    /\ tracing = FALSE
    /\ active = {}
    /\ status = [i \in Iters |-> "unused"]
    /\ dirPath = [i \in Iters |-> ""]
    /\ wildCard = [i \in Iters |-> ""]
    /\ dir = [i \in Iters |-> NULL]
    /\ seen = [h \in Streams |-> {}]
    /\ found = [i \in Iters |-> {}]
    /\ lastEntry = [i \in Iters |-> NotCalled]
    /\ everFalse = [i \in Iters |-> FALSE]
    /\ trueAfterFalse = [i \in Iters |-> FALSE]
    /\ statFailed = [i \in Iters |-> FALSE]
    /\ modified = [i \in Iters |-> FALSE]
    /\ closeCalls = [i \in Iters |-> 0]
    /\ badReaddir = [i \in Iters |-> FALSE]
    /\ rawOrder = [i \in Iters |-> <<>>]
    /\ yielded = [i \in Iters |-> <<>>]
    /\ parentDir = [i \in Iters |-> <<>>]
    /\ statPath = [i \in Iters |-> <<>>]

\* Any file system: each path names nothing or a file, which may be
\* undeletable or unreadable.
InitFiles ==
    /\ fs \in [Paths -> Files \cup {NoFile}]
    /\ locked \in SUBSET {x \in Paths : fs[x] # NoFile}
    /\ unreadable \in SUBSET {x \in Paths : fs[x] # NoFile}
    /\ lastCopy = NoCopy

LinksIdle ==
    /\ links = [x \in LinkPaths |-> [kind |-> "missing", target |-> <<>>]]
    /\ lastLink = NoLinkCall

LocIdle ==
    /\ android \in Androids
    /\ lastResolve = NoResolve
    /\ remembered = NoResolve

TrashIdle == lastTrash = NoTrash

\* buttons are off, in no group and not toggle-buttons by default
ButtonFresh ==
    /\ isOn = [b \in Buttons |-> FALSE]
    /\ radioGroupId = [b \in Buttons |-> 0]
    /\ clickTogglesState = [b \in Buttons |-> FALSE]
    /\ lastClick = NoClick

RestIdle == LinksIdle /\ LocIdle /\ TrashIdle /\ ButtonFresh

InitCopy == InitFiles /\ IterIdle /\ RestIdle

NextCopy == \E source \in Paths, dest \in Paths : CopyInternal(source, dest)

SpecCopy == InitCopy /\ [][NextCopy]_vars

(***************************************************************************)
(* The specification of one iterator over a directory that other processes *)
(* may modify, and of two iterators over a directory left alone.           *)
(***************************************************************************)
FilesIdle ==
    /\ fs = [x \in Paths |-> NoFile]
    /\ locked = {}
    /\ unreadable = {}
    /\ lastCopy = NoCopy

IterFresh ==
    /\ dirEntries \in {SpecialNames \cup s : s \in SUBSET RealNames}
    /\ status = [i \in Iters |-> "unused"]
    /\ dirPath = [i \in Iters |-> ""]
    /\ wildCard = [i \in Iters |-> ""]
    /\ dir = [i \in Iters |-> NULL]
    /\ seen = [h \in Streams |-> {}]
    /\ found = [i \in Iters |-> {}]
    /\ lastEntry = [i \in Iters |-> NotCalled]
    /\ everFalse = [i \in Iters |-> FALSE]
    /\ trueAfterFalse = [i \in Iters |-> FALSE]
    /\ statFailed = [i \in Iters |-> FALSE]
    /\ modified = [i \in Iters |-> FALSE]
    /\ closeCalls = [i \in Iters |-> 0]
    /\ badReaddir = [i \in Iters |-> FALSE]
    /\ rawOrder = [i \in Iters |-> <<>>]
    /\ yielded = [i \in Iters |-> <<>>]
    /\ parentDir = [i \in Iters |-> <<>>]
    /\ statPath = [i \in Iters |-> <<>>]

InitIter ==
    /\ FilesIdle /\ IterFresh /\ RestIdle
    /\ active = {"it1"}
    /\ modsLeft = MaxMods
    /\ statResults = BOOLEAN
    /\ hiddenAsked = BOOLEAN
    /\ tracing = FALSE

NextIter ==
    \/ \E i \in Iters, d \in DirPaths, w \in WildCards : Pimpl(i, d, w)
    \/ \E i \in Iters : next(i)
    \/ \E i \in Iters : PimplDestructor(i)
    \/ \E n \in RealNames : ExternalAdd(n)
    \/ \E n \in RealNames : ExternalRemove(n)

SpecIter == InitIter /\ [][NextIter]_vars

InitIter2 ==
    /\ FilesIdle /\ IterFresh /\ RestIdle
    /\ active = Iters
    /\ modsLeft = 0
    /\ statResults = {TRUE}
    /\ hiddenAsked = {TRUE}
    /\ tracing = FALSE

NextIter2 ==
    \/ \E i \in Iters, d \in DirPaths, w \in WildCards : Pimpl(i, d, w)
    \/ \E i \in Iters : next(i)
    \/ \E i \in Iters : PimplDestructor(i)

SpecIter2 == InitIter2 /\ [][NextIter2]_vars


(***************************************************************************)
(* The specification of one iterator over a directory left alone, in a run *)
(* that records the order in which readdir returns the entries             *)
(***************************************************************************)
InitOrder ==
    /\ FilesIdle /\ IterFresh /\ RestIdle
    /\ active = {"it1"}
    /\ modsLeft = 0
    /\ statResults = {TRUE}
    /\ hiddenAsked = {TRUE}
    /\ tracing = TRUE

NextOrder ==
    \/ \E w \in WildCards : Pimpl("it1", "/tmp/x", w)
    \/ next("it1")
    \/ PimplDestructor("it1")

SpecOrder == InitOrder /\ [][NextOrder]_vars

(***************************************************************************)
(* The specification of one iterator over a directory named as the root,   *)
(* without and with a trailing separator                                   *)
(***************************************************************************)
InitStat ==
    /\ FilesIdle /\ IterFresh /\ RestIdle
    /\ active = {"it1"}
    /\ modsLeft = 0
    /\ statResults = BOOLEAN
    /\ hiddenAsked = {TRUE}
    /\ tracing = FALSE

NextStat ==
    \/ \E d \in StatDirs, w \in WildCards : Pimpl("it1", d, w)
    \/ next("it1")
    \/ PimplDestructor("it1")

SpecStat == InitStat /\ [][NextStat]_vars

(***************************************************************************)
(* The specification of link resolution: any three entries of /d           *)
(***************************************************************************)
InitLink ==
    /\ links \in [LinkPaths -> NotLinks \cup {LinkTo(t) : t \in Targets}]
    /\ lastLink = NoLinkCall
    /\ FilesIdle /\ IterIdle /\ LocIdle /\ TrashIdle /\ ButtonFresh

NextLink == \E path \in LinkPaths : GetLinkedTarget(path)

SpecLink == InitLink /\ [][NextLink]_vars

(***************************************************************************)
(* The specification of link resolution at the edges of the buffer: links  *)
(* whose target is empty, fills the buffer or is longer than it            *)
(***************************************************************************)
InitLongLink ==
    /\ links \in [LinkPaths -> NotLinks \cup {LinkTo(t) : t \in EdgeTargets}]
    /\ lastLink = NoLinkCall
    /\ FilesIdle /\ IterIdle /\ LocIdle /\ TrashIdle /\ ButtonFresh

NextLongLink == \E path \in LinkPaths : GetLinkedTarget(path)

SpecLongLink == InitLongLink /\ [][NextLongLink]_vars

(***************************************************************************)
(* The specification of special locations: getSpecialLocation among the    *)
(* other operations of the subsystem, on one file and one directory        *)
(***************************************************************************)
InitLoc ==
    /\ fs = [x \in Paths |-> IF x = "p" THEN FileOf(<<>>) ELSE NoFile]
    /\ locked = {}
    /\ unreadable = {}
    /\ lastCopy = NoCopy
    /\ IterFresh
    /\ dirEntries = SpecialNames
    /\ active = {"it1"}
    /\ modsLeft = 0
    /\ statResults = {TRUE}
    /\ hiddenAsked = {TRUE}
    /\ tracing = FALSE
    /\ RestIdle

NextLoc ==
    \/ \E type \in LocationTypes : GetSpecialLocation(type)
    \/ CopyInternal("p", "q")
    \/ MoveToTrash("q")
    \/ Pimpl("it1", "/tmp/x", "*")
    \/ next("it1")

SpecLoc == InitLoc /\ [][NextLoc]_vars

(***************************************************************************)
(* The specification of the location table: getSpecialLocation alone, for  *)
(* several data directories and executable files                           *)
(***************************************************************************)
TableDataDirs == {<<"data", "app">>, <<"usr">>}
TableAppFiles == {<<"data", "app.apk">>, <<"usr", "Desktop">>}

InitTable ==
    /\ FilesIdle /\ IterIdle /\ LinksIdle /\ TrashIdle /\ ButtonFresh
    /\ android \in [appDataDir : TableDataDirs, appFile : TableAppFiles]
    /\ lastResolve = NoResolve
    /\ remembered = NoResolve

NextTable == \E type \in LocationTypes : GetSpecialLocation(type)

SpecTable == InitTable /\ [][NextTable]_vars

(***************************************************************************)
(* The specification of moveToTrash: any file system                       *)
(***************************************************************************)
InitTrash == InitFiles /\ IterIdle /\ RestIdle

NextTrash == \E path \in Paths : MoveToTrash(path)

SpecTrash == InitTrash /\ [][NextTrash]_vars

(***************************************************************************)
(* The specification of the buttons of one parent component                *)
(***************************************************************************)
InitButton == FilesIdle /\ IterIdle /\ RestIdle

NextButton ==
    \/ \E b \in Buttons, shouldBeOn \in BOOLEAN : SetToggleState(b, shouldBeOn)
    \/ \E b \in Buttons, shouldToggle \in BOOLEAN : SetClickingTogglesState(b, shouldToggle)
    \/ \E b \in Buttons, newGroupId \in GroupIds : SetRadioGroupId(b, newGroupId)
    \/ \E b \in Buttons : Click(b)

SpecButton == InitButton /\ [][NextButton]_vars

(***************************************************************************)
(* File::copyInternal: the claims                                          *)
(***************************************************************************)
\* a complete correct copy of the source is at dest
CompleteCopy ==
    /\ exists(lastCopy.before, lastCopy.source)
    /\ exists(fs, lastCopy.dest)
    /\ fs[lastCopy.dest] = lastCopy.before[lastCopy.source]

\* C1: after copy (source, dest) returns, either it returned success and a
\* complete correct copy of source is at dest, or it returned failure and no
\* file is at dest.
C1_CopyAtomic ==
    lastCopy.called =>
        \/ lastCopy.ret /\ CompleteCopy
        \/ ~lastCopy.ret /\ ~exists(fs, lastCopy.dest)

\* C2: copy (source, dest) leaves the source as it was, whatever dest is and
\* whatever the call returns.
C2_SourceUntouched ==
    lastCopy.called => fs[lastCopy.source] = lastCopy.before[lastCopy.source]

\* C3: copy returns success only if the source was opened for reading and as
\* many bytes were written as the source holds, and then dest holds the
\* source's content.
C3_SuccessMeansCopied ==
    (lastCopy.called /\ lastCopy.ret) =>
        /\ lastCopy.opened
        /\ lastCopy.written = getSize(lastCopy.before, lastCopy.source)
        /\ CompleteCopy

\* the order of the steps of a copy
CopySteps == <<"openSource", "deleteDest", "openDest", "stream", "verify">>

\* C18: the steps of a copy are taken in the order open source, delete old
\* destination, open destination, stream, verify; a destination that cannot
\* be deleted gives failure with the destination neither opened nor written;
\* a destination that cannot be opened gives failure with nothing streamed;
\* and after a failure dest names nothing or the old file, untouched.
C18_StepOrder ==
    lastCopy.called =>
        /\ \A k \in 1..Len(lastCopy.steps) :
              k <= Len(CopySteps) => lastCopy.steps[k] = CopySteps[k]
        /\ ~deleteFileOk(lastCopy.before, locked, lastCopy.dest)
              => /\ ~lastCopy.ret
                 /\ lastCopy.steps = <<"openSource", "deleteDest">>
                 /\ lastCopy.written = 0
                 /\ fs = lastCopy.before
        /\ lastCopy.failedToOpen
              => /\ ~lastCopy.ret
                 /\ lastCopy.steps = <<"openSource", "deleteDest", "openDest">>
                 /\ lastCopy.written = 0
                 /\ ~exists(fs, lastCopy.dest)
        /\ ~lastCopy.ret
              => \/ ~exists(fs, lastCopy.dest)
                 \/ /\ fs[lastCopy.dest] = lastCopy.before[lastCopy.dest]
                    /\ lastCopy.steps = <<"openSource", "deleteDest">>

\* a copy of two bytes onto an older file stopped after one byte: failure,
\* and the one byte written is gone
C18_Witness ==
    /\ lastCopy.called /\ ~lastCopy.ret
    /\ lastCopy.source = "p" /\ lastCopy.dest = "q"
    /\ Len(lastCopy.before["p"].data) = 2
    /\ exists(lastCopy.before, "q")
    /\ lastCopy.written = 1
    /\ Len(lastCopy.steps) = 6
    /\ ~exists(fs, "q")

(***************************************************************************)
(* The directory iterator: the claims                                      *)
(***************************************************************************)
\* instance i iterated a directory it opened to the first false of next(),
\* and nobody modified the directory meanwhile
WalkedUnmodified(i) ==
    /\ status[i] # "unused"
    /\ dir[i] # NULL
    /\ everFalse[i]
    /\ ~trueAfterFalse[i]
    /\ ~modified[i]

\* C4: the names an iterator yields until next() first returns false are the
\* entries of the directory that match the wildcard, "." and ".." excluded.
C4_YieldsMatchingSet ==
    \A i \in Iters :
        WalkedUnmodified(i) =>
            found[i] = {n \in dirEntries \ SpecialNames : Matches(wildCard[i], n)}

\* C5: next() never returns true with filenameFound "." or "..".
C5_NoSpecialEntries ==
    \A i \in Iters :
        lastEntry[i].ret => lastEntry[i].filenameFound \notin SpecialNames

\* C6: once next() has returned false on an instance, no later call on that
\* instance returns true.
C6_ExhaustionTerminal == \A i \in Iters : ~trueAfterFalse[i]

\* C7: closedir is called once on the handle of a destroyed instance whose
\* opendir succeeded and never otherwise, never twice, and readdir is never
\* called on a null handle.
C7_HandleReleasedOnce ==
    \A i \in Iters :
        /\ closeCalls[i] <= 1
        /\ ~badReaddir[i]
        /\ closeCalls[i] = 1 <=>
               (status[i] = "destroyed" /\ OpenError(dirPath[i]) = "ok")

\* a walk that was advanced, saw the directory modified, and was destroyed
C7_Witness ==
    \E i \in Iters :
        /\ status[i] = "destroyed"
        /\ closeCalls[i] = 1
        /\ modified[i]
        /\ found[i] # {}

\* what the caller of an instance can observe of it
Observation(i) == [found |-> found[i], last |-> lastEntry[i]]

\* C8: an iterator over a directory that could not be opened is observably
\* different from an iterator, with the same wildcard, over an empty directory.
C8_OpenFailureObservable ==
    \A i, j \in Iters :
        ( /\ status[i] # "unused" /\ OpenError(dirPath[i]) # "ok"
          /\ status[j] # "unused" /\ OpenError(dirPath[j]) = "ok"
          /\ dirEntries = SpecialNames
          /\ wildCard[i] = wildCard[j]
          /\ everFalse[i] /\ everFalse[j] )
        => Observation(i) # Observation(j)

ExpectedMatch(wild) ==
    CASE wild = "*"     -> Names
      [] wild = "*.txt" -> {"a.txt", "B.TXT"}
      [] wild = ".*"    -> {".", "..", ".hidden"}
      [] wild = "?"     -> {"."}

\* C10: an entry is yielded exactly when its name matches the wildcard with
\* case ignored, hidden or not; the reported isHidden is true exactly when the
\* name begins with '.'; a.txt, B.TXT and .hidden iterated with "*.txt"
\* yield a.txt and B.TXT, both not hidden.
C10_WildcardHiddenOrthogonal ==
    \A i \in Iters :
        /\ WalkedUnmodified(i) =>
               found[i] = dirEntries \cap ExpectedMatch(wildCard[i])
        /\ (lastEntry[i].ret /\ lastEntry[i].isHidden # "unset") =>
               (lastEntry[i].isHidden = "true"
                    <=> lastEntry[i].filenameFound \in {".", "..", ".hidden"})
        /\ (lastEntry[i].ret /\ lastEntry[i].filenameFound \in {"a.txt", "B.TXT"}) =>
               lastEntry[i].isHidden \in {"false", "unset"}

\* the walk of a.txt, B.TXT and .hidden with "*.txt" is finished
C10_Witness ==
    \E i \in Iters :
        /\ WalkedUnmodified(i)
        /\ dirEntries = Names
        /\ wildCard[i] = "*.txt"
        /\ found[i] = {"a.txt", "B.TXT"}
        /\ lastEntry[i].isHidden = "false"

(***************************************************************************)
(* Symbolic links: the claims                                              *)
(***************************************************************************)
\* the file a link at `path` holding target t resolves to, one level down
ImmediateTarget(path, t) ==
    IF Head(t) = "/" THEN t ELSE <<"/", "d", "/">> \o t

\* C11: for a path that is not a symbolic link (a file, a directory, nothing)
\* getLinkedTarget reports an outcome that no successful resolution of that
\* path could report.
C11_NotALinkReported ==
    (lastLink.called /\ links[lastLink.path].kind # "link") =>
        lastLink.result \notin {ImmediateTarget(lastLink.path, t) : t \in Targets}

\* C12: one call makes exactly one native link read and returns the
\* immediate target of the link, resolved against the link's directory, also
\* when that target is a link itself or the link points to itself.
C12_OneLevelOnly ==
    lastLink.called =>
        /\ lastLink.reads = 1
        /\ links[lastLink.path].kind = "link" =>
               lastLink.result = ImmediateTarget(lastLink.path,
                                                 links[lastLink.path].target)

\* a link to a link to a third entry was resolved to the second
C12_Witness ==
    /\ lastLink.called
    /\ lastLink.path = <<"/", "d", "/", "a">>
    /\ links[<<"/", "d", "/", "a">>] = LinkTo(<<"b">>)
    /\ links[<<"/", "d", "/", "b">>] = LinkTo(<<"c">>)
    /\ lastLink.result = <<"/", "d", "/", "b">>


(***************************************************************************)
(* File::getSpecialLocation: the claims                                    *)
(***************************************************************************)
\* C13: getSpecialLocation returns a non-empty path for every value of the
\* location type, a value outside the 13 mapped kinds included.
C13_NeverEmptyPath == lastResolve.called => lastResolve.result # nonexistent

\* C14: two getSpecialLocation calls with the same type return the same
\* file, whatever copy, trash, iteration and getSpecialLocation calls happen
\* between them, and a getSpecialLocation call changes nothing but what its
\* caller holds.
C14_ResolveIdempotent ==
    /\ [](remembered.called /\ lastResolve.called
            /\ remembered.type = lastResolve.type
          => remembered.result = lastResolve.result)
    /\ [][(lastResolve' # lastResolve \/ remembered' # remembered)
          => UNCHANGED <<android, fileVars, iterVars, linkVars, trashVars,
                         buttonVars>>]_vars

\* a kept result and a later one of the same type, with a copy, a trash and
\* an iteration call all made between the two
C14_Witness ==
    /\ remembered.called /\ remembered.early
    /\ lastResolve.called /\ lastResolve.late
    /\ remembered.type = "tempDirectory"
    /\ lastResolve.type = "tempDirectory"
    /\ lastResolve.result = android.appDataDir \o <<".temp">>

(***************************************************************************)
(* File::moveToTrash: the claims                                           *)
(***************************************************************************)
\* C15: moveToTrash on a path that names nothing returns true and leaves the
\* file system as it was.
C15_AbsentIsSuccess ==
    (lastTrash.called /\ ~lastTrash.existed)
        => (lastTrash.ret /\ ~lastTrash.changed)

\* moveToTrash was called on a path that names nothing, beside a file
C15_Witness ==
    /\ lastTrash.called /\ lastTrash.path = "q" /\ ~lastTrash.existed
    /\ lastTrash.ret
    /\ ~exists(fs, "q") /\ exists(fs, "p")


(***************************************************************************)
(* Two iterators over the same directory: the claims                       *)
(***************************************************************************)
\* what belongs to one instance: its members, the position of its DIR
\* stream, whether the stream was closed and what its caller was handed
PrivateState(i) ==
    <<status[i], dirPath[i], wildCard[i], dir[i],
      IF dir[i] = NULL THEN {} ELSE seen[dir[i]],
      closeCalls[i], found[i], lastEntry[i], everFalse[i]>>

\* C16: a step that constructs, advances or destroys one iterator leaves the
\* other's handle, position, remaining entries and open status as they were,
\* under every interleaving; and an iterator walked to the end of the
\* directory has yielded every entry that matches its wildcard and nothing
\* that does not match.
C16_Independent ==
    /\ [][\A i \in Iters : \A j \in Iters \ {i} :
            PrivateState(i)' # PrivateState(i) => PrivateState(j)' = PrivateState(j)]_vars
    /\ [](\A i \in Iters : \A j \in Iters \ {i} :
            (status[i] = "alive" /\ dir[i] # NULL /\ status[j] = "alive"
                => dir[i] # dir[j]))
    /\ [](\A i \in Iters :
            (status[i] # "unused" /\ dir[i] # NULL /\ everFalse[i])
                => found[i] = {n \in dirEntries : Matches(wildCard[i], n)})

\* both iterators were on the same directory; it1 was destroyed after one
\* entry, it2 went on to the end and yielded all three entries
C16_Witness ==
    /\ dirEntries = {".", "..", "a.txt"}
    /\ dirPath["it1"] = "/tmp/x" /\ dirPath["it2"] = "/tmp/x"
    /\ wildCard["it1"] = "*" /\ wildCard["it2"] = "*"
    /\ status["it1"] = "destroyed" /\ Cardinality(found["it1"]) = 1
    /\ status["it2"] = "alive" /\ everFalse["it2"]
    /\ found["it2"] = dirEntries


(***************************************************************************)
(* Button: the claims                                                      *)
(***************************************************************************)
\* C17: of the buttons that share a non-zero radio group ID at most one is
\* on; a step that turns one of them on leaves no other button of its group
\* on; and a click on a toggle-button of a group that is on leaves it on.
C17_RadioGroupExclusive ==
    /\ [](\A b \in Buttons : \A c \in Buttons \ {b} :
            (radioGroupId[b] # 0 /\ radioGroupId[b] = radioGroupId[c])
                => ~(isOn[b] /\ isOn[c]))
    /\ [][\A b \in Buttons :
            (~isOn[b] /\ isOn'[b] /\ radioGroupId'[b] # 0)
                => \A c \in Buttons \ {b} :
                      radioGroupId'[c] = radioGroupId'[b] => ~isOn'[c]]_vars
    /\ []((lastClick.called /\ lastClick.toggles /\ lastClick.wasOn
            /\ lastClick.group # 0)
          => lastClick.nowOn)

\* three buttons of group 1, b2 on and clicked while on, the others off
C17_Witness ==
    /\ \A b \in Buttons : radioGroupId[b] = 1 /\ clickTogglesState[b]
    /\ lastClick.called /\ lastClick.button = "b2" /\ lastClick.wasOn
    /\ lastClick.group = 1 /\ lastClick.toggles /\ lastClick.nowOn
    /\ isOn = [b \in Buttons |-> b = "b2"]


(***************************************************************************)
(* The order of iteration: the claims                                      *)
(***************************************************************************)
\* the names of a sequence that match the wildcard, in the sequence's order
RECURSIVE MatchingSubsequence(_, _)
MatchingSubsequence(wild, names) ==
    IF names = <<>> THEN <<>>
    ELSE IF Matches(wild, Head(names))
    THEN <<Head(names)>> \o MatchingSubsequence(wild, Tail(names))
    ELSE MatchingSubsequence(wild, Tail(names))

\* C19: the names successive next() calls yield are the matching names of
\* what readdir returned, in readdir's order; readdir returns no name twice;
\* a next() call that returns true has read the stream up to the name it
\* returns and no further; one that returns false has read it to the end.
C19_SinglePass ==
    tracing => \A i \in Iters :
        /\ yielded[i] = MatchingSubsequence(wildCard[i], rawOrder[i])
        /\ \A a \in DOMAIN rawOrder[i] : \A b \in DOMAIN rawOrder[i] :
              a # b => rawOrder[i][a] # rawOrder[i][b]
        /\ (lastEntry[i].called /\ lastEntry[i].ret)
              => /\ rawOrder[i] # <<>>
                 /\ rawOrder[i][Len(rawOrder[i])] = lastEntry[i].filenameFound
        /\ (lastEntry[i].called /\ ~lastEntry[i].ret /\ dir[i] # NULL)
              => {rawOrder[i][k] : k \in DOMAIN rawOrder[i]} = dirEntries

\* readdir returned "..", "B.TXT", ".", ".hidden", "a.txt" in this order to
\* an iterator for "*.txt", which yielded B.TXT, then a.txt, then nothing
C19_Witness ==
    /\ wildCard["it1"] = "*.txt"
    /\ rawOrder["it1"] = <<"..", "B.TXT", ".", ".hidden", "a.txt">>
    /\ yielded["it1"] = <<"B.TXT", "a.txt">>
    /\ lastEntry["it1"].called /\ ~lastEntry["it1"].ret


(***************************************************************************)
(* The path given to stat: the claims                                      *)
(***************************************************************************)
\* what precedes the separator and the name in the path of an entry of the
\* directory: nothing for the root
DirectoryPart(directory) ==
    CASE directory = "/"       -> <<>>
      [] directory = "/tmp/x"  -> <<"/", "t", "m", "p", "/", "x">>
      [] directory = "/tmp/x/" -> <<"/", "t", "m", "p", "/", "x">>
      [] OTHER                 -> <<>>

\* C20: the path next() has a matched entry stat'ed by is the directory, one
\* separator and the name it yields, with no second separator before the
\* name, whether the directory was written with a trailing separator, without
\* one, or is the root.
C20_StatPathJoined ==
    \A i \in Iters :
        (lastEntry[i].called /\ lastEntry[i].ret /\ dirPath[i] \in StatDirs) =>
            LET name == toUTF8(lastEntry[i].filenameFound)
                path == statPath[i]
                at   == Len(path) - Len(name)
            IN  /\ at >= 1
                /\ SubSeq(path, at + 1, Len(path)) = name
                /\ path[at] = separator
                /\ at >= 2 => path[at - 1] # separator
                /\ SubSeq(path, 1, at - 1) = DirectoryPart(dirPath[i])

\* an entry of the root: the root's own separator is the only one
C20_Witness ==
    /\ dirPath["it1"] = "/"
    /\ parentDir["it1"] = <<"/">>
    /\ lastEntry["it1"].called /\ lastEntry["it1"].ret
    /\ lastEntry["it1"].filenameFound = "a.txt"
    /\ statPath["it1"] = <<"/", "a", ".", "t", "x", "t">>


(***************************************************************************)
(* File::moveToTrash on a path that names a file: the claims               *)
(***************************************************************************)
\* C21: moveToTrash on a path that names a file returns false and leaves the
\* file where it was with the content it had; so moveToTrash returns true
\* exactly when the path named nothing.
C21_ExistingStaysInPlace ==
    lastTrash.called =>
        /\ lastTrash.existed
              => /\ ~lastTrash.ret
                 /\ ~lastTrash.changed
                 /\ exists(fs, lastTrash.path)
        /\ lastTrash.ret <=> ~lastTrash.existed

\* moveToTrash was called on a file of two bytes: false, and the file is there
C21_Witness ==
    /\ lastTrash.called /\ lastTrash.path = "p" /\ lastTrash.existed
    /\ ~lastTrash.ret
    /\ fs["p"] = FileOf(<<"x", "y">>)


(***************************************************************************)
(* The table of special locations: the claims                              *)
(***************************************************************************)
\* the group of kinds a location type belongs to
LocationGroup(type) ==
    CASE type \in {"userHomeDirectory", "userDocumentsDirectory",
                   "userMusicDirectory", "userMoviesDirectory",
                   "userApplicationDataDirectory",
                   "commonApplicationDataDirectory"}   -> "data"
      [] type \in {"invokedExecutableFile", "currentExecutableFile",
                   "currentApplicationFile", "hostApplicationPath"} -> "executable"
      [] OTHER -> type

\* C22: each of the 13 kinds resolves to a non-empty path; the six data
\* kinds resolve to the application data directory and the four executable
\* kinds to the executable file, so two kinds of one group give the same
\* path; desktop, global-apps and temp give three different paths.
C22_LocationTable ==
    (remembered.called /\ lastResolve.called
        /\ remembered.type \in MappedTypes /\ lastResolve.type \in MappedTypes) =>
        /\ remembered.result # nonexistent /\ lastResolve.result # nonexistent
        /\ LocationGroup(lastResolve.type) = "data"
              => lastResolve.result = android.appDataDir
        /\ LocationGroup(lastResolve.type) = "executable"
              => lastResolve.result = android.appFile
        /\ LocationGroup(remembered.type) = LocationGroup(lastResolve.type)
              => remembered.result = lastResolve.result
        /\ ( /\ remembered.type # lastResolve.type
             /\ {remembered.type, lastResolve.type}
                    \subseteq {"userDesktopDirectory", "globalApplicationsDirectory",
                               "tempDirectory"} )
              => remembered.result # lastResolve.result

\* the desktop and the temp directory of an application whose data directory
\* is /usr
C22_Witness ==
    /\ android.appDataDir = <<"usr">>
    /\ remembered.called /\ remembered.type = "userDesktopDirectory"
    /\ remembered.result = <<"usr", "Desktop">>
    /\ lastResolve.called /\ lastResolve.type = "tempDirectory"
    /\ lastResolve.result = <<"usr", ".temp">>


=============================================================================
